---- MODULE Spec2Model ----
(***************************************************************************)
(* The patient/caregiver health-tracking backend: registration, login,     *)
(* bearer tokens and owner-scoped CRUD over medications, appointments and  *)
(* daily tasks.  The repository holds two applications over the same       *)
(* schema: the single-file one (src/app.py, "monolith") and the blueprint  *)
(* package (src/app/, "package").  One of them is deployed; the variable   *)
(* `deployed` says which.  An action is one HTTP request, served whole,    *)
(* except under SpecAccept, SpecQuery and SpecRace, where a request takes  *)
(* several steps and waits in `inflight` between them.                     *)
(***************************************************************************)
EXTENDS Integers, Sequences, FiniteSets, TLC

\* ------------------------------------------------------------------ bounds
MaxUsers == 2      \* rows the users table may hold
MaxRows == 1       \* rows ever inserted into the record tables, all told

\* ------------------------------------------------------------ input values
Absent == "<absent>"            \* the JSON body has no such key
Usernames == {"alice", "bob"}
Passwords == {"pw1", "pw2"}
Vals == {"v1", "v2"}            \* field values of a record payload

\* A JSON body: the keys in ks whose value is given.
Body(ks, f) == [k \in {x \in ks : f[x] # Absent} |-> f[k]]

\* Python's truthiness of an optional string (None and "" are falsy).
Falsy(x) == x = Absent \/ x = ""

\* dict.get(key): None when the key is absent.
Get(data, k) == IF k \in DOMAIN data THEN data[k] ELSE Absent

\* data[key] raises KeyError when the key is absent.
HasAll(data, ks) == \A k \in ks : k \in DOMAIN data

VARIABLES deployed, users, tokens, medications, appointments, daily_tasks,
          seq, invites, grants, last, inflight

vars == <<deployed, users, tokens, medications, appointments, daily_tasks,
          seq, invites, grants, last, inflight>>

tables == <<medications, appointments, daily_tasks, seq>>
ledger == <<invites, grants>>

\* ------------------------------------------------------------- responses
\* What the client receives: the HTTP status, the message or error text, and
\* the payload (an id, a token, a list of rows; NoData when none).
NoData == [none |-> TRUE]
Response(status, text, data) == [status |-> status, text |-> text, data |-> data]

\* An exception no handler catches (KeyError, TypeError): Flask answers 500.
Crash == Response(500, "Internal Server Error", NoData)

\* Flask's make_response on a view's return value.  A 2-tuple (body, status)
\* sets the status.  A 3-tuple is (body, status, headers): headers that are
\* an int cannot be merged into the response and the request ends in 500.
MakeResponse2(text, data, status) == Response(status, text, data)
MakeResponse3(text, data, status, headers) == Crash

\* The request that was served last, and its response.
Served(op, kind, actor, id, body, up, resp) ==
    last' = [op |-> op, kind |-> kind, actor |-> actor, id |-> id, body |-> body,
             up |-> up, resp |-> resp]

NoBody == [k \in {} |-> ""]

\* ------------------------------------------------------- the backing store
\* execute_query's result: None (the connection failed, or the statement
\* raised psycopg2.Error and was rolled back) or a value.
None == [none |-> TRUE]
Some(v) == [none |-> FALSE, value |-> v]

\* Python's truthiness of an execute_query result that is None, True, a row
\* or an id (ids start at 1).
Truthy(r) == ~r.none

\* ------------------------------------------------------------- identities
\* The identity a token carries, as JSON: a number or a string.
JsonInt(n) == [t |-> "int", v |-> n]
JsonStr(s) == [t |-> "str", v |-> s]

\* Python's str(int), and PostgreSQL's reading of a quoted literal compared
\* with an integer column.
Str(n) == ToString(n)
ParseInt(s) == CHOOSE n \in 0..(MaxUsers + 1) : Str(n) = s
SqlInt(j) == IF j.t = "int" THEN j.v ELSE ParseInt(j.v)

\* create_access_token(identity=...) and get_jwt_identity(): the token binds
\* the identity it was created with and yields it back.
CreateAccessToken(identity) == [sub |-> identity]
GetJwtIdentity(token) == token.sub

\* The identity login puts into the token: user[0] in the monolith,
\* str(user[0]) in the package.
LoginIdentity(id) == IF deployed = "monolith" THEN JsonInt(id) ELSE JsonStr(Str(id))

\* ---------------------------------------------------------- password hash
\* generate_password_hash(password): a salted one-way digest;
\* check_password_hash(hash, password) recomputes it with the stored salt.
Digest(salt, password) == <<"digest", salt, password>>
GeneratePasswordHash(password, salt) == [salt |-> salt, digest |-> Digest(salt, password)]
CheckPasswordHash(hash, password) == hash.digest = Digest(hash.salt, password)

\* ---------------------------------------------------------- users table
Roles == {"patient", "caregiver"}

\* users.username is unique: an INSERT of a taken username raises
\* UniqueViolation.
UsernameTaken(username) == \E i \in 1..Len(users) : users[i].username = username

\* The id the users table's serial column gives the next row.
NextUserId == Len(users) + 1

UserByName(username) ==
    LET S == {i \in 1..Len(users) : users[i].username = username}
    IN IF S = {} THEN None ELSE Some(users[CHOOSE i \in S : TRUE])

\* ---------------------------------------------------------------- register
RegisterKeys == {"username", "password", "name", "role"}

\* The validation of line 96 (monolith) / 13 (package).
InvalidRegistration(username, password, role) ==
    Falsy(username) \/ Falsy(password) \/ role \notin Roles

\* The view's return statement: `return jsonify(A) if user_id else
\* jsonify(B), 500` is the tuple ((A if user_id else B), 500).
RegisterReturn(user_id, role) ==
    IF Truthy(user_id)
    THEN MakeResponse2("User registered successfully!",
                       [userId |-> user_id.value, role |-> role], 500)
    ELSE MakeResponse2(IF deployed = "monolith" THEN "Database error occurred"
                       ELSE "Database error", NoData, 500)

Register(data, salt, up) ==
    LET username == Get(data, "username")
        password == Get(data, "password")
        name == IF "name" \in DOMAIN data THEN data["name"] ELSE "Unnamed User"
        role == Get(data, "role")
        row == [id |-> NextUserId, name |-> name, username |-> username,
                password |-> GeneratePasswordHash(password, salt), role |-> role]
        inserted == up /\ ~UsernameTaken(username)
        user_id == IF inserted THEN Some(row.id) ELSE None
    IN /\ IF deployed = "package" /\ ~HasAll(data, RegisterKeys)
          THEN /\ UNCHANGED users
               /\ Served("register", "users", 0, 0, data, up, Crash)
          ELSE IF InvalidRegistration(username, password, role)
          THEN /\ UNCHANGED users
               /\ Served("register", "users", 0, 0, data, up,
                         MakeResponse2("Invalid registration data", NoData, 400))
          ELSE /\ inserted => Len(users) < MaxUsers
               /\ users' = IF inserted THEN Append(users, row) ELSE users
               /\ Served("register", "users", 0, 0, data, up, RegisterReturn(user_id, role))
       /\ UNCHANGED <<deployed, inflight, tokens, tables, ledger>>

\* ------------------------------------------------------------------- login
LoginKeys == {"username", "password"}

\* `if user and check_password_hash(user[2], password)`.
LoginAcceptsAnyPassword(user, password) == ~user.none
LoginAccepts(user, password) ==
    ~user.none /\ CheckPasswordHash(user.value.password, password)

Login(data, up) ==
    LET username == Get(data, "username")
        password == Get(data, "password")
        user == IF up THEN UserByName(username) ELSE None
        token == CreateAccessToken(LoginIdentity(user.value.id))
    IN /\ IF deployed = "package" /\ ~HasAll(data, LoginKeys)
          THEN /\ UNCHANGED tokens
               /\ Served("login", "users", 0, 0, data, up, Crash)
          ELSE IF deployed = "monolith" /\ (Falsy(username) \/ Falsy(password))
          THEN /\ UNCHANGED tokens
               /\ Served("login", "users", 0, 0, data, up,
                         MakeResponse2("Username and password required", NoData, 400))
          ELSE IF LoginAccepts(user, password)
          THEN /\ tokens' = tokens \cup {token}
               /\ Served("login", "users", 0, 0, data, up,
                         MakeResponse2("token",
                             [token |-> token, userId |-> user.value.id,
                              role |-> user.value.role], 200))
          ELSE /\ UNCHANGED tokens
               /\ Served("login", "users", 0, 0, data, up,
                         MakeResponse2("Invalid username or password", NoData, 401))
       /\ UNCHANGED <<deployed, inflight, users, tables, ledger>>

\* ----------------------------------------------------------- record tables
\* The JSON fields a record request carries (the columns of its table).
Fields(kind) ==
    CASE kind = "medications" ->
           {"name", "dosage", "time", "duration",
            IF deployed = "monolith" THEN "isTaken" ELSE "is_taken"}
      [] kind = "appointments" -> {"title", "date", "description"}
      [] kind = "daily_tasks" -> {"name", "location", "time", "frequency"}

Cols(kind, data) == [f \in Fields(kind) |-> data[f]]

\* required_fields / `all(field in data ...)`.
MissingFields(kind, data) == ~HasAll(data, Fields(kind))

\* The WHERE clauses of the statements.
WhereIdUserSwapped(r, id, user_id) == r.id = user_id /\ r.user_id = id
WhereIdUser(r, id, user_id) == r.id = id /\ r.user_id = user_id
WhereId(r, id) == r.id = id

\* SELECT ... WHERE user_id = %s
SelectByUser(T, user_id) == {r \in T : r.user_id = user_id}

\* SELECT id ... WHERE id = %s AND user_id = %s, fetch_one
SelectOwned(T, id, user_id, up) ==
    IF up /\ (\E r \in T : WhereIdUser(r, id, user_id)) THEN Some(id) ELSE None

\* UPDATE ... WHERE id=%s AND user_id=%s, and DELETE with the same clause.
UpdateOwned(T, id, user_id, cols) ==
    {IF WhereIdUser(r, id, user_id) THEN [r EXCEPT !.cols = cols] ELSE r : r \in T}
DeleteOwned(T, id, user_id) == {r \in T : ~WhereIdUser(r, id, user_id)}

\* UPDATE ... WHERE id=%s, and DELETE ... WHERE id = %s.
UpdateById(T, id, cols) ==
    {IF WhereId(r, id) THEN [r EXCEPT !.cols = cols] ELSE r : r \in T}
DeleteById(T, id) == {r \in T : ~WhereId(r, id)}

\* INSERT ... RETURNING id: the serial column gives the next id.
NewRow(kind, user_id, data) ==
    [id |-> seq[kind] + 1, user_id |-> user_id, cols |-> Cols(kind, data)]

\* A write through execute_query: committed -> True, otherwise None.
Written(up) == IF up THEN Some(TRUE) ELSE None

\* The rows a list view puts into its JSON answer: the monolith selects the
\* record's own columns, the package selects *.
Listed(rows) ==
    IF deployed = "monolith" THEN {[id |-> r.id, cols |-> r.cols] : r \in rows}
    ELSE rows

\* get_jwt_identity(), as the statements' user_id parameter.
Actor(token) == SqlInt(GetJwtIdentity(token))

\* What a view did: the table and its serial counter afterwards, whether
\* every store call it made went through, and its response.
Out(T, n, up, resp) == [table |-> T, seq |-> n, up |-> up, resp |-> resp]

\* ------------------------------------------------------------ list views
\* src/app.py get_medications / get_appointments / get_daily_tasks: a failed
\* fetch returns None and the list comprehension raises TypeError.
GetMonolith(T, user_id, up) ==
    IF up THEN MakeResponse2("list", [rows |-> Listed(SelectByUser(T, user_id))], 200)
    ELSE Crash

\* src/app/routes medications.py and appointments.py: jsonify(rows), 200.
GetPackage(T, user_id, up) ==
    IF up THEN MakeResponse2("list", [rows |-> Listed(SelectByUser(T, user_id))], 200)
    ELSE MakeResponse2("list", NoData, 200)

\* src/app/routes/daily_tasks.py get_daily_tasks: `return jsonify(tasks), 200
\* if tasks else jsonify(...), 404` is a 3-tuple whose headers are 404.
GetDailyTasksPackage(T, user_id, up) ==
    IF up THEN MakeResponse3("list", [rows |-> Listed(SelectByUser(T, user_id))], 200, 404)
    ELSE MakeResponse3("list", NoData, 200, 404)

\* ---------------------------------------------------------- create views
\* src/app.py add_medication: check the fields, insert, read the row back.
AddMedicationMonolith(T, n, user_id, data, up1, up2) ==
    LET row == NewRow("medications", user_id, data) IN
    IF MissingFields("medications", data)
    THEN Out(T, n, TRUE, MakeResponse2("Missing required fields", NoData, 400))
    ELSE IF ~up1
    THEN Out(T, n, FALSE, MakeResponse2("Failed to add medication", NoData, 500))
    ELSE IF ~up2
    THEN Out(T \cup {row}, n + 1, FALSE,
             MakeResponse2("Failed to retrieve medication", NoData, 500))
    ELSE Out(T \cup {row}, n + 1, TRUE,
             MakeResponse2("created", [id |-> row.id, cols |-> row.cols], 201))

\* src/app.py add_appointment / add_daily_task: data[...] raises KeyError on a
\* missing field; insert; 500 when no id came back.
AddMonolith(kind, T, n, user_id, data, up) ==
    LET row == NewRow(kind, user_id, data) IN
    IF MissingFields(kind, data) THEN Out(T, n, TRUE, Crash)
    ELSE IF ~up
    THEN Out(T, n, FALSE, MakeResponse2("Failed to add", NoData, 500))
    ELSE Out(T \cup {row}, n + 1, TRUE,
             MakeResponse2("added", [id |-> row.id], 201))

\* src/app/routes medications.py and appointments.py: insert, then 201 with
\* whatever id came back.
AddPackage(kind, T, n, user_id, data, up) ==
    LET row == NewRow(kind, user_id, data) IN
    IF MissingFields(kind, data) THEN Out(T, n, TRUE, Crash)
    ELSE IF ~up THEN Out(T, n, FALSE, MakeResponse2("added", NoData, 201))
    ELSE Out(T \cup {row}, n + 1, TRUE,
             MakeResponse2("added", [id |-> row.id], 201))

\* src/app/routes/daily_tasks.py add_daily_task: insert, then a 3-tuple.
AddDailyTaskPackage(T, n, user_id, data, up) ==
    LET row == NewRow("daily_tasks", user_id, data) IN
    IF MissingFields("daily_tasks", data) THEN Out(T, n, TRUE, Crash)
    ELSE IF ~up THEN Out(T, n, FALSE, MakeResponse3("Task added!", NoData, 201, 500))
    ELSE Out(T \cup {row}, n + 1, TRUE,
             MakeResponse3("Task added!", [id |-> row.id], 201, 500))

\* ---------------------------------------------------------- update views
\* src/app.py update_medication: fields, ownership check (404), update.
UpdateMedicationMonolith(T, user_id, id, data, up1, up2) ==
    IF MissingFields("medications", data)
    THEN Out(T, 0, TRUE, MakeResponse2("Missing required fields", NoData, 400))
    ELSE IF ~Truthy(SelectOwned(T, id, user_id, up1))
    THEN Out(T, 0, up1,
             MakeResponse2("Medication not found or access denied", NoData, 404))
    ELSE IF Truthy(Written(up2))
    THEN Out(UpdateOwned(T, id, user_id, Cols("medications", data)), 0, TRUE,
             MakeResponse2("Medication updated successfully!", NoData, 200))
    ELSE Out(T, 0, FALSE, MakeResponse2("Failed to update medication", NoData, 500))

\* src/app.py update_appointment / update_daily_task: fields, then one UPDATE
\* scoped by id and user_id; success is the statement's, not the row count.
UpdateMonolith(kind, T, user_id, id, data, up) ==
    IF MissingFields(kind, data)
    THEN Out(T, 0, TRUE, MakeResponse2("Missing required fields", NoData, 400))
    ELSE IF Truthy(Written(up))
    THEN Out(UpdateOwned(T, id, user_id, Cols(kind, data)), 0, TRUE,
             MakeResponse2("updated successfully!", NoData, 200))
    ELSE Out(T, 0, FALSE, MakeResponse2("Failed to update", NoData, 500))

\* src/app/routes medications.py and appointments.py: UPDATE ... WHERE id=%s,
\* result ignored, 200.
UpdatePackage(kind, T, user_id, id, data, up) ==
    IF MissingFields(kind, data) THEN Out(T, 0, TRUE, Crash)
    ELSE Out(IF up THEN UpdateById(T, id, Cols(kind, data)) ELSE T, 0, up,
             MakeResponse2("updated!", NoData, 200))

\* src/app/routes/daily_tasks.py update_daily_task: ownership check (403),
\* update, then a 3-tuple.
UpdateDailyTaskPackage(T, user_id, id, data, up1, up2) ==
    IF ~Truthy(SelectOwned(T, id, user_id, up1))
    THEN Out(T, 0, up1, MakeResponse2("Task not found or unauthorized", NoData, 403))
    ELSE IF MissingFields("daily_tasks", data) THEN Out(T, 0, TRUE, Crash)
    ELSE Out(IF up2 THEN UpdateOwned(T, id, user_id, Cols("daily_tasks", data)) ELSE T,
             0, up2, MakeResponse3("Task updated successfully!", NoData, 200, 500))

\* ---------------------------------------------------------- delete views
\* src/app.py delete_medication: ownership check (404), delete.
DeleteMedicationMonolith(T, user_id, id, up1, up2) ==
    IF ~Truthy(SelectOwned(T, id, user_id, up1))
    THEN Out(T, 0, up1,
             MakeResponse2("Medication not found or access denied", NoData, 404))
    ELSE IF Truthy(Written(up2))
    THEN Out(DeleteOwned(T, id, user_id), 0, TRUE,
             MakeResponse2("Medication deleted successfully!", NoData, 200))
    ELSE Out(T, 0, FALSE, MakeResponse2("Failed to delete medication", NoData, 500))

\* src/app.py delete_appointment: one DELETE scoped by id and user_id.
DeleteAppointmentMonolith(T, user_id, id, up) ==
    IF Truthy(Written(up))
    THEN Out(DeleteOwned(T, id, user_id), 0, TRUE,
             MakeResponse2("Appointment deleted successfully!", NoData, 200))
    ELSE Out(T, 0, FALSE, MakeResponse2("Failed to delete appointment", NoData, 500))

\* src/app/routes/appointments.py delete_appointment: DELETE ... WHERE id = %s.
DeleteAppointmentPackage(T, user_id, id, up) ==
    Out(IF up THEN DeleteById(T, id) ELSE T, 0, up,
        MakeResponse2("Appointment deleted!", NoData, 200))

\* src/app/routes/daily_tasks.py delete_daily_task: ownership check (403),
\* delete, then a 3-tuple.
DeleteDailyTaskPackage(T, user_id, id, up1, up2) ==
    IF ~Truthy(SelectOwned(T, id, user_id, up1))
    THEN Out(T, 0, up1, MakeResponse2("Task not found or unauthorized", NoData, 403))
    ELSE Out(IF up2 THEN DeleteOwned(T, id, user_id) ELSE T, 0, up2,
             MakeResponse3("Task deleted successfully!", NoData, 200, 500))

\* Rows inserted so far, over the three tables.
Inserted == seq["medications"] + seq["appointments"] + seq["daily_tasks"]

\* ------------------------------------------------------- record requests
\* One request each: @jwt_required() admits a token that login issued.
\* `fail` is the store call of the request that fails (0: none does); a view
\* makes one or two calls.
Monolith == deployed = "monolith"
Up(fail, call) == fail # call

GetMedications(token, fail) ==
    LET user_id == Actor(token) IN
    /\ token \in tokens
    /\ Served("get", "medications", user_id, 0, NoBody, Up(fail, 1),
              IF Monolith THEN GetMonolith(medications, user_id, Up(fail, 1))
              ELSE GetPackage(medications, user_id, Up(fail, 1)))
    /\ UNCHANGED <<deployed, inflight, users, tokens, tables, ledger>>

GetAppointments(token, fail) ==
    LET user_id == Actor(token) IN
    /\ token \in tokens
    /\ Served("get", "appointments", user_id, 0, NoBody, Up(fail, 1),
              IF Monolith THEN GetMonolith(appointments, user_id, Up(fail, 1))
              ELSE GetPackage(appointments, user_id, Up(fail, 1)))
    /\ UNCHANGED <<deployed, inflight, users, tokens, tables, ledger>>

GetDailyTasks(token, fail) ==
    LET user_id == Actor(token) IN
    /\ token \in tokens
    /\ Served("get", "daily_tasks", user_id, 0, NoBody, Up(fail, 1),
              IF Monolith THEN GetMonolith(daily_tasks, user_id, Up(fail, 1))
              ELSE GetDailyTasksPackage(daily_tasks, user_id, Up(fail, 1)))
    /\ UNCHANGED <<deployed, inflight, users, tokens, tables, ledger>>

AddMedication(token, data, fail) ==
    LET user_id == Actor(token)
        o == IF Monolith
             THEN AddMedicationMonolith(medications, seq["medications"], user_id,
                                        data, Up(fail, 1), Up(fail, 2))
             ELSE AddPackage("medications", medications, seq["medications"],
                             user_id, data, Up(fail, 1))
    IN /\ token \in tokens
       /\ fail <= (IF Monolith THEN 2 ELSE 1)
       /\ Inserted < MaxRows
       /\ medications' = o.table
       /\ seq' = [seq EXCEPT !["medications"] = o.seq]
       /\ Served("add", "medications", user_id, 0, data, o.up, o.resp)
       /\ UNCHANGED <<deployed, inflight, users, tokens, appointments, daily_tasks, ledger>>

AddAppointment(token, data, fail) ==
    LET user_id == Actor(token)
        o == IF Monolith
             THEN AddMonolith("appointments", appointments, seq["appointments"],
                              user_id, data, Up(fail, 1))
             ELSE AddPackage("appointments", appointments, seq["appointments"],
                             user_id, data, Up(fail, 1))
    IN /\ token \in tokens
       /\ Inserted < MaxRows
       /\ appointments' = o.table
       /\ seq' = [seq EXCEPT !["appointments"] = o.seq]
       /\ Served("add", "appointments", user_id, 0, data, o.up, o.resp)
       /\ UNCHANGED <<deployed, inflight, users, tokens, medications, daily_tasks, ledger>>

AddDailyTask(token, data, fail) ==
    LET user_id == Actor(token)
        o == IF Monolith
             THEN AddMonolith("daily_tasks", daily_tasks, seq["daily_tasks"],
                              user_id, data, Up(fail, 1))
             ELSE AddDailyTaskPackage(daily_tasks, seq["daily_tasks"], user_id,
                                      data, Up(fail, 1))
    IN /\ token \in tokens
       /\ Inserted < MaxRows
       /\ daily_tasks' = o.table
       /\ seq' = [seq EXCEPT !["daily_tasks"] = o.seq]
       /\ Served("add", "daily_tasks", user_id, 0, data, o.up, o.resp)
       /\ UNCHANGED <<deployed, inflight, users, tokens, medications, appointments, ledger>>

UpdateMedication(token, id, data, fail) ==
    LET user_id == Actor(token)
        o == IF Monolith
             THEN UpdateMedicationMonolith(medications, user_id, id, data,
                                           Up(fail, 1), Up(fail, 2))
             ELSE UpdatePackage("medications", medications, user_id, id, data,
                                Up(fail, 1))
    IN /\ token \in tokens
       /\ fail <= (IF Monolith THEN 2 ELSE 1)
       /\ medications' = o.table
       /\ Served("update", "medications", user_id, id, data, o.up, o.resp)
       /\ UNCHANGED <<deployed, inflight, users, tokens, appointments, daily_tasks, seq, ledger>>

UpdateAppointment(token, id, data, fail) ==
    LET user_id == Actor(token)
        o == IF Monolith
             THEN UpdateMonolith("appointments", appointments, user_id, id, data,
                                 Up(fail, 1))
             ELSE UpdatePackage("appointments", appointments, user_id, id, data,
                                Up(fail, 1))
    IN /\ token \in tokens
       /\ appointments' = o.table
       /\ Served("update", "appointments", user_id, id, data, o.up, o.resp)
       /\ UNCHANGED <<deployed, inflight, users, tokens, medications, daily_tasks, seq, ledger>>

UpdateDailyTask(token, id, data, fail) ==
    LET user_id == Actor(token)
        o == IF Monolith
             THEN UpdateMonolith("daily_tasks", daily_tasks, user_id, id, data,
                                 Up(fail, 1))
             ELSE UpdateDailyTaskPackage(daily_tasks, user_id, id, data,
                                         Up(fail, 1), Up(fail, 2))
    IN /\ token \in tokens
       /\ fail <= (IF Monolith THEN 1 ELSE 2)
       /\ daily_tasks' = o.table
       /\ Served("update", "daily_tasks", user_id, id, data, o.up, o.resp)
       /\ UNCHANGED <<deployed, inflight, users, tokens, medications, appointments, seq, ledger>>

\* Only the monolith routes DELETE /medications/<id>.
DeleteMedication(token, id, fail) ==
    LET user_id == Actor(token)
        o == DeleteMedicationMonolith(medications, user_id, id, Up(fail, 1), Up(fail, 2))
    IN /\ Monolith
       /\ token \in tokens
       /\ medications' = o.table
       /\ Served("delete", "medications", user_id, id, NoBody, o.up, o.resp)
       /\ UNCHANGED <<deployed, inflight, users, tokens, appointments, daily_tasks, seq, ledger>>

DeleteAppointment(token, id, fail) ==
    LET user_id == Actor(token)
        o == IF Monolith
             THEN DeleteAppointmentMonolith(appointments, user_id, id, Up(fail, 1))
             ELSE DeleteAppointmentPackage(appointments, user_id, id, Up(fail, 1))
    IN /\ token \in tokens
       /\ appointments' = o.table
       /\ Served("delete", "appointments", user_id, id, NoBody, o.up, o.resp)
       /\ UNCHANGED <<deployed, inflight, users, tokens, medications, daily_tasks, seq, ledger>>

\* Only the package routes DELETE /daily_tasks/<task_id>.
DeleteDailyTask(token, id, fail) ==
    LET user_id == Actor(token)
        o == DeleteDailyTaskPackage(daily_tasks, user_id, id, Up(fail, 1), Up(fail, 2))
    IN /\ ~Monolith
       /\ token \in tokens
       /\ daily_tasks' = o.table
       /\ Served("delete", "daily_tasks", user_id, id, NoBody, o.up, o.resp)
       /\ UNCHANGED <<deployed, inflight, users, tokens, medications, appointments, seq, ledger>>

\* ------------------------------------------------------ delegation ledger
\* The capability flags of a grant, and those an accepted invite gives.
Caps(appts, meds, tasks) ==
    [can_edit_appointments |-> appts, can_edit_medications |-> meds,
     can_view_daily_tasks |-> tasks]
DefaultCaps == Caps(FALSE, FALSE, TRUE)

RoleOf(user_id) ==
    LET S == {i \in 1..Len(users) : users[i].id = user_id}
    IN IF S = {} THEN Absent ELSE users[CHOOSE i \in S : TRUE].role

GrantRows(patient_id, caregiver_id) ==
    {i \in 1..Len(grants) :
        grants[i].patient_id = patient_id /\ grants[i].caregiver_id = caregiver_id}

\* INSERT ... ON CONFLICT (patient_id, caregiver_id) DO NOTHING.
InsertGrantAlways(G, patient_id, caregiver_id, caps) ==
    Append(G, [patient_id |-> patient_id, caregiver_id |-> caregiver_id,
               caps |-> caps])
InsertGrant(G, patient_id, caregiver_id, caps) ==
    IF \E i \in 1..Len(G) :
          G[i].patient_id = patient_id /\ G[i].caregiver_id = caregiver_id
    THEN G
    ELSE Append(G, [patient_id |-> patient_id, caregiver_id |-> caregiver_id,
                    caps |-> caps])

\* assignDirect: the actor must be a patient; an existing pair is a conflict
\* and nothing is written.
AssignDirect(token, caregiver_id, caps) ==
    LET patient_id == Actor(token) IN
    /\ token \in tokens
    /\ caregiver_id \in {users[i].id : i \in 1..Len(users)}
    /\ IF RoleOf(patient_id) # "patient"
       THEN /\ UNCHANGED grants
            /\ Served("assign", "ledger", patient_id, caregiver_id, NoBody, TRUE,
                      Response(403, "Forbidden", NoData))
       ELSE IF GrantRows(patient_id, caregiver_id) # {}
       THEN /\ UNCHANGED grants
            /\ Served("assign", "ledger", patient_id, caregiver_id, NoBody, TRUE,
                      Response(409, "DuplicateGrantError", NoData))
       ELSE /\ grants' = InsertGrant(grants, patient_id, caregiver_id, caps)
            /\ Served("assign", "ledger", patient_id, caregiver_id, NoBody, TRUE,
                      Response(201, "granted", NoData))
    /\ UNCHANGED <<deployed, inflight, users, tokens, tables, invites>>

Pending(patient_id, caregiver_id) ==
    [patient_id |-> patient_id, caregiver_id |-> caregiver_id, status |-> "pending"]
Accepted(patient_id, caregiver_id) ==
    [patient_id |-> patient_id, caregiver_id |-> caregiver_id, status |-> "accepted"]

\* invite: the named user must exist with role caregiver; an already pending
\* pair is left as it is.
Invite(token, username) ==
    LET patient_id == Actor(token)
        caregiver == UserByName(username)
    IN /\ token \in tokens
       /\ IF caregiver.none \/ caregiver.value.role # "caregiver"
          THEN /\ UNCHANGED invites
               /\ Served("invite", "ledger", patient_id, 0, NoBody, TRUE,
                         Response(404, "NotFound", NoData))
          ELSE /\ invites' = invites \cup {Pending(patient_id, caregiver.value.id)}
               /\ Served("invite", "ledger", patient_id, caregiver.value.id, NoBody,
                         TRUE, Response(201, "invited", NoData))
       /\ UNCHANGED <<deployed, inflight, users, tokens, tables, grants>>

\* accept: in one transaction, the pending invite becomes accepted and the
\* grant with the default capabilities is inserted.
Accept(token, patient_id) ==
    LET caregiver_id == Actor(token) IN
    /\ token \in tokens
    /\ patient_id \in {users[i].id : i \in 1..Len(users)}
    /\ IF Pending(patient_id, caregiver_id) \notin invites
       THEN /\ UNCHANGED ledger
            /\ Served("accept", "ledger", caregiver_id, patient_id, NoBody, TRUE,
                      Response(404, "NotFound", NoData))
       ELSE /\ invites' = (invites \ {Pending(patient_id, caregiver_id)})
                              \cup {Accepted(patient_id, caregiver_id)}
            /\ grants' = InsertGrant(grants, patient_id, caregiver_id, DefaultCaps)
            /\ Served("accept", "ledger", caregiver_id, patient_id, NoBody, TRUE,
                      Response(200, "accepted", NoData))
    /\ UNCHANGED <<deployed, inflight, users, tokens, tables>>

\* ------------------------------------------------------------ the system
Kinds == {"medications", "appointments", "daily_tasks"}

Init ==
    /\ deployed \in {"monolith", "package"}
    /\ users = <<>>
    /\ tokens = {}
    /\ medications = {}
    /\ appointments = {}
    /\ daily_tasks = {}
    /\ seq = [k \in Kinds |-> 0]
    /\ invites = {}
    /\ grants = <<>>
    /\ last = [op |-> "start", kind |-> "none", actor |-> 0, id |-> 0,
               body |-> NoBody, up |-> TRUE, resp |-> Response(0, "", NoData)]
    /\ inflight = {}

\* The people of the end-to-end scenarios: patient alice, caregiver bob.
People ==
    {[username |-> "alice", password |-> "pw1", name |-> "Alice", role |-> "patient"],
     [username |-> "bob", password |-> "pw2", name |-> "Bob", role |-> "caregiver"]}

\* The bodies of record requests: every field given, or one field missing;
\* a create may also name the patient it is meant for.
FullBody(kind, v) == [f \in Fields(kind) |-> v]
PartBody(kind) ==
    LET drop == CHOOSE f \in Fields(kind) : TRUE
    IN [f \in Fields(kind) \ {drop} |-> "v1"]
RecordBodies(kind) == {FullBody(kind, v) : v \in Vals} \cup {PartBody(kind)}
ForPatient(body, patient_id) ==
    [k \in DOMAIN body \cup {"patient_id"} |->
        IF k = "patient_id" THEN patient_id ELSE body[k]]
UserIds == 1..MaxUsers
RowIds == 1..MaxRows

\* The store call of a request that fails: none, the first, the second.
OneCall == 0..1
TwoCalls == 0..2

\* A record request's body and failing call: any body with the store up, or
\* a full body with one of the request's store calls failing.
Cases(kind, calls) ==
    {<<d, 0>> : d \in RecordBodies(kind)}
        \cup {<<FullBody(kind, "v2"), f>> : f \in calls \ {0}}

Requests ==
    \/ \E d \in People, up \in BOOLEAN : Register(d, "s1", up)
    \/ \E d \in People : Login([k \in LoginKeys |-> d[k]], TRUE)
    \/ \E t \in tokens, fail \in OneCall : GetMedications(t, fail)
    \/ \E t \in tokens, fail \in OneCall : GetAppointments(t, fail)
    \/ \E t \in tokens, fail \in OneCall : GetDailyTasks(t, fail)
    \/ \E t \in tokens, c \in Cases("medications", TwoCalls) : AddMedication(t, c[1], c[2])
    \/ \E t \in tokens, p \in UserIds :
          AddMedication(t, ForPatient(FullBody("medications", "v1"), p), 0)
    \/ \E t \in tokens, c \in Cases("appointments", OneCall) : AddAppointment(t, c[1], c[2])
    \/ \E t \in tokens, c \in Cases("daily_tasks", OneCall) : AddDailyTask(t, c[1], c[2])
    \/ \E t \in tokens, id \in RowIds, c \in Cases("medications", TwoCalls) :
          UpdateMedication(t, id, c[1], c[2])
    \/ \E t \in tokens, id \in RowIds, c \in Cases("appointments", OneCall) :
          UpdateAppointment(t, id, c[1], c[2])
    \/ \E t \in tokens, id \in RowIds, c \in Cases("daily_tasks", TwoCalls) :
          UpdateDailyTask(t, id, c[1], c[2])
    \/ \E t \in tokens, id \in RowIds, fail \in TwoCalls : DeleteMedication(t, id, fail)
    \/ \E t \in tokens, id \in RowIds, fail \in OneCall : DeleteAppointment(t, id, fail)
    \/ \E t \in tokens, id \in RowIds, fail \in TwoCalls : DeleteDailyTask(t, id, fail)

Next == Requests

Spec == Init /\ [][Next]_vars

\* ------------------------------------------------- the authenticator alone
\* Registration and login with every shape of body, and one authenticated
\* request on which a token is resolved.
Salts == {"s1", "s2"}
Person(u, p, r) == [username |-> u, password |-> p, name |-> "Ann", role |-> r]
Base == Person("alice", "pw1", "patient")

\* Bodies that differ from Base by one missing, empty or disallowed field.
Defects ==
    {[Base EXCEPT !.username = x] : x \in {"", Absent}}
        \cup {[Base EXCEPT !.password = x] : x \in {"", Absent}}
        \cup {[Base EXCEPT !.role = x] : x \in {"admin", Absent}}
        \cup {[Base EXCEPT !.name = Absent]}

\* <<fields, salt, store up>>
RegisterCases ==
    {<<Person(u, p, r), "s1", TRUE>> : u \in Usernames, p \in Passwords, r \in Roles}
        \cup {<<Person(u, "pw1", "patient"), "s2", TRUE>> : u \in Usernames}
        \cup {<<Base, "s1", FALSE>>}
        \cup {<<d, "s1", TRUE>> : d \in Defects}

\* <<fields, store up>>
LoginCases ==
    {<<[username |-> u, password |-> p], TRUE>> :
        u \in Usernames \cup {"", Absent}, p \in Passwords \cup {"", Absent}}
        \cup {<<[username |-> "alice", password |-> "pw1"], FALSE>>}

NextAuth ==
    \/ \E c \in RegisterCases : Register(Body(RegisterKeys, c[1]), c[2], c[3])
    \/ \E c \in LoginCases : Login(Body(LoginKeys, c[1]), c[2])
    \/ \E t \in tokens, fail \in OneCall : GetMedications(t, fail)

SpecAuth == Init /\ [][NextAuth]_vars

\* ------------------------------------------------------ the ledger alone
CapChoices == {DefaultCaps, Caps(TRUE, TRUE, TRUE)}

NextLedger ==
    \/ \E d \in People : Register(d, "s1", TRUE)
    \/ \E d \in People : Login([k \in LoginKeys |-> d[k]], TRUE)
    \/ \E t \in tokens, c \in UserIds, caps \in CapChoices : AssignDirect(t, c, caps)
    \/ \E t \in tokens, d \in People : Invite(t, d.username)
    \/ \E t \in tokens, p \in UserIds : Accept(t, p)

SpecLedger == Init /\ [][NextLedger]_vars

\* ------------------------------------------------------ requests in flight
\* A request that is served in several steps sits in `inflight` between
\* them: its slot, what it is, and where it stands.
MaxInflight == 2   \* requests in flight at once

Slots == 1..MaxInflight
FreeSlot == CHOOSE n \in Slots : \A r \in inflight : r.rid # n
HasFreeSlot == \E n \in Slots : \A r \in inflight : r.rid # n

\* ------------------------------------------------ accept as a transaction
\* accept's two statements, in the order they run:
\*   mark:  UPDATE the invite SET status = accepted WHERE it is pending
\*   grant: INSERT the grant ON CONFLICT (patient_id, caregiver_id) DO NOTHING
AcceptStatements == <<"mark", "grant">>

MarkAccepted(I, patient_id, caregiver_id) ==
    IF Pending(patient_id, caregiver_id) \in I
    THEN (I \ {Pending(patient_id, caregiver_id)})
            \cup {Accepted(patient_id, caregiver_id)}
    ELSE I

\* The ledger after the statements in stmts are applied to it.
ApplyLedger(stmts, I, G, patient_id, caregiver_id) ==
    [invites |-> IF "mark" \in stmts THEN MarkAccepted(I, patient_id, caregiver_id)
                 ELSE I,
     grants |-> IF "grant" \in stmts
                THEN InsertGrant(G, patient_id, caregiver_id, DefaultCaps) ELSE G]

\* Whether a statement of accept commits on its own when it executes.  Both
\* run inside the one transaction of the request: neither does.
CommitsEachStatement(stmt) == TRUE
CommitsOnExecute(stmt) == FALSE

\* accept begins: NotFound without a pending invite, else the transaction is
\* open and nothing has run yet.
AcceptBegin(token, patient_id) ==
    LET caregiver_id == Actor(token) IN
    /\ token \in tokens
    /\ patient_id \in {users[i].id : i \in 1..Len(users)}
    /\ HasFreeSlot
    /\ IF Pending(patient_id, caregiver_id) \notin invites
       THEN /\ UNCHANGED inflight
            /\ Served("accept", "ledger", caregiver_id, patient_id, NoBody, TRUE,
                      Response(404, "NotFound", NoData))
       ELSE /\ inflight' = inflight \cup
                   {[rid |-> FreeSlot, op |-> "accept", actor |-> caregiver_id,
                     id |-> patient_id, pc |-> 1, writes |-> {}]}
            /\ UNCHANGED last
    /\ UNCHANGED <<deployed, users, tokens, tables, ledger>>

\* The next statement of an accept executes: its write waits in the
\* transaction, invisible to other requests, until the commit.
AcceptExecute(r) ==
    LET stmt == AcceptStatements[r.pc]
        now == IF CommitsOnExecute(stmt) THEN {stmt} ELSE {}
        after == ApplyLedger(now, invites, grants, r.id, r.actor)
    IN /\ r.op = "accept"
       /\ r.pc <= Len(AcceptStatements)
       /\ invites' = after.invites
       /\ grants' = after.grants
       /\ inflight' = (inflight \ {r})
              \cup {[r EXCEPT !.pc = r.pc + 1, !.writes = r.writes \cup ({stmt} \ now)]}
       /\ UNCHANGED <<deployed, users, tokens, tables, last>>

\* The transaction commits: every waiting write is applied at once.
AcceptCommit(r) ==
    LET after == ApplyLedger(r.writes, invites, grants, r.id, r.actor) IN
    /\ r.op = "accept"
    /\ r.pc = Len(AcceptStatements) + 1
    /\ invites' = after.invites
    /\ grants' = after.grants
    /\ inflight' = inflight \ {r}
    /\ Served("accept", "ledger", r.actor, r.id, NoBody, TRUE,
              Response(200, "accepted", NoData))
    /\ UNCHANGED <<deployed, users, tokens, tables>>

\* The store fails under an accept, before or after any of its statements:
\* the transaction rolls back and the waiting writes are dropped.
AcceptFail(r) ==
    /\ r.op = "accept"
    /\ inflight' = inflight \ {r}
    /\ Served("accept", "ledger", r.actor, r.id, NoBody, FALSE,
              Response(500, "StorageError", NoData))
    /\ UNCHANGED <<deployed, users, tokens, tables, ledger>>

\* The ledger with accept served in steps; invites come from patients.
NextAccept ==
    \/ \E d \in People : Register(d, "s1", TRUE)
    \/ \E d \in People : Login([k \in LoginKeys |-> d[k]], TRUE)
    \/ \E t \in tokens, c \in UserIds : AssignDirect(t, c, Caps(TRUE, TRUE, TRUE))
    \/ \E t \in tokens, d \in People :
          RoleOf(Actor(t)) = "patient" /\ Invite(t, d.username)
    \/ \E t \in tokens, p \in UserIds : AcceptBegin(t, p)
    \/ \E r \in inflight : AcceptExecute(r)
    \/ \E r \in inflight : AcceptCommit(r)
    \/ \E r \in inflight : AcceptFail(r)

SpecAccept == Init /\ [][NextAccept]_vars

\* -------------------------------------------------- execute_query in steps
\* A view's write through execute_query(query, params, return_id): the call
\* connects, executes the statement in the connection's transaction, fetches
\* the RETURNING row when return_id, commits and returns; `except
\* psycopg2.Error` rolls back and returns None; `finally` closes the cursor
\* and the connection, which drops a transaction still open.

\* The statement a view hands to execute_query.
Statement(op, id, user_id, cols, return_id) ==
    [op |-> op, id |-> id, user_id |-> user_id, cols |-> cols,
     return_id |-> return_id]

\* The appointments table once a statement's write is committed.
Commit(T, stmt) ==
    CASE stmt.op = "insert" ->
           T \cup {[id |-> stmt.id, user_id |-> stmt.user_id, cols |-> stmt.cols]}
      [] stmt.op = "delete" ->
           IF Monolith THEN DeleteOwned(T, stmt.id, stmt.user_id)
           ELSE DeleteById(T, stmt.id)

\* The call as the view makes it: nothing has run.
Call(rid, view, stmt) ==
    [rid |-> rid, op |-> "query", view |-> view, stmt |-> stmt, pc |-> "connect",
     open |-> FALSE, result |-> None, raised |-> "none", fault |-> "none",
     committed |-> FALSE]

Move(r, q) == inflight' = (inflight \ {r}) \cup {q}

\* add_appointment calls execute_query(INSERT ... RETURNING id, return_id=True);
\* data[...] raises KeyError on a missing field before the call.
AddAppointmentCall(token, data) ==
    LET user_id == Actor(token) IN
    /\ token \in tokens
    /\ HasFreeSlot
    /\ IF MissingFields("appointments", data)
       THEN /\ UNCHANGED inflight
            /\ Served("add", "appointments", user_id, 0, data, TRUE, Crash)
       ELSE /\ inflight' = inflight \cup
                   {Call(FreeSlot, "add",
                         Statement("insert", 0, user_id, Cols("appointments", data),
                                   TRUE))}
            /\ UNCHANGED last
    /\ UNCHANGED <<deployed, users, tokens, tables, ledger>>

\* delete_appointment calls execute_query(DELETE ...).
DeleteAppointmentCall(token, id) ==
    LET user_id == Actor(token) IN
    /\ token \in tokens
    /\ HasFreeSlot
    /\ inflight' = inflight \cup
           {Call(FreeSlot, "delete", Statement("delete", id, user_id, NoBody, FALSE))}
    /\ UNCHANGED <<deployed, users, tokens, tables, ledger, last>>

\* conn, cur = get_db_connection(); `if not conn: return None`.
ExecuteQueryConnect(r, ok) ==
    /\ r.op = "query"
    /\ r.pc = "connect"
    /\ Move(r, IF ok THEN [r EXCEPT !.pc = "execute"]
               ELSE [r EXCEPT !.pc = "done", !.fault = "connect"])
    /\ UNCHANGED <<deployed, users, tokens, tables, ledger, last>>

\* cur.execute(query, params): the write sits in the open transaction; an
\* INSERT takes the next id of the serial column.  Or psycopg2.Error.
ExecuteQueryExecute(r, ok) ==
    LET n == seq["appointments"] + 1
        insert == r.stmt.op = "insert"
    IN /\ r.op = "query"
       /\ r.pc = "execute"
       /\ IF ~ok
          THEN /\ Move(r, [r EXCEPT !.pc = "except", !.fault = "execute"])
               /\ UNCHANGED seq
          ELSE /\ insert => Inserted < MaxRows
               /\ Move(r, [r EXCEPT !.pc = IF r.stmt.return_id THEN "fetch" ELSE "commit",
                                    !.open = TRUE,
                                    !.stmt.id = IF insert THEN n ELSE @])
               /\ seq' = IF insert THEN [seq EXCEPT !["appointments"] = n] ELSE seq
       /\ UNCHANGED <<deployed, users, tokens, medications, appointments,
                      daily_tasks, ledger, last>>

\* result = cur.fetchone()[0]: the id; or fetchone raises psycopg2.Error; or
\* fetchone() is None (no row came back) and [0] raises TypeError, which
\* `except psycopg2.Error` does not catch.
FetchOutcomes == {"row", "error", "norow"}
ExecuteQueryFetchId(r, outcome) ==
    /\ r.op = "query"
    /\ r.pc = "fetch"
    /\ Move(r, CASE outcome = "row" ->
                      [r EXCEPT !.pc = "commit", !.result = Some(r.stmt.id)]
                 [] outcome = "error" ->
                      [r EXCEPT !.pc = "except", !.fault = "fetch"]
                 [] outcome = "norow" ->
                      [r EXCEPT !.pc = "finally", !.fault = "fetch",
                                !.raised = "TypeError"])
    /\ UNCHANGED <<deployed, users, tokens, tables, ledger, last>>

\* conn.commit(), then `return result` / `return True`.  Or psycopg2.Error.
ExecuteQueryCommit(r, ok) ==
    /\ r.op = "query"
    /\ r.pc = "commit"
    /\ IF ok
       THEN /\ appointments' = Commit(appointments, r.stmt)
            /\ Move(r, [r EXCEPT !.pc = "finally", !.open = FALSE, !.committed = TRUE,
                                 !.result = IF r.stmt.return_id THEN @ ELSE Some(TRUE)])
       ELSE /\ UNCHANGED appointments
            /\ Move(r, [r EXCEPT !.pc = "except", !.fault = "commit"])
    /\ UNCHANGED <<deployed, users, tokens, medications, daily_tasks, seq, ledger, last>>

\* except psycopg2.Error: conn.rollback(); return None.
ExecuteQueryExcept(r) ==
    /\ r.op = "query"
    /\ r.pc = "except"
    /\ Move(r, [r EXCEPT !.pc = "finally", !.open = FALSE, !.result = None])
    /\ UNCHANGED <<deployed, users, tokens, tables, ledger, last>>

\* finally: cur.close(); conn.close().  The call is over: it has returned
\* its result or the exception goes on to the view.
ExecuteQueryFinally(r) ==
    /\ r.op = "query"
    /\ r.pc = "finally"
    /\ Move(r, [r EXCEPT !.pc = "done", !.open = FALSE])
    /\ UNCHANGED <<deployed, users, tokens, tables, ledger, last>>

\* add_appointment after the call: 500 without an id in the monolith, 201
\* with whatever came back in the package.
AddAppointmentReturn(result) ==
    IF Truthy(result) THEN MakeResponse2("added", [id |-> result.value], 201)
    ELSE IF Monolith THEN MakeResponse2("Failed to add", NoData, 500)
    ELSE MakeResponse2("added", NoData, 201)

\* delete_appointment after the call.
DeleteAppointmentReturn(result) ==
    IF ~Monolith THEN MakeResponse2("Appointment deleted!", NoData, 200)
    ELSE IF Truthy(result)
    THEN MakeResponse2("Appointment deleted successfully!", NoData, 200)
    ELSE MakeResponse2("Failed to delete appointment", NoData, 500)

\* The view answers; an exception that left execute_query ends the request.
ViewReturn(r) ==
    /\ r.op = "query"
    /\ r.pc = "done"
    /\ inflight' = inflight \ {r}
    /\ Served(r.view, "appointments", r.stmt.user_id, r.stmt.id,
              IF r.view = "add" THEN r.stmt.cols ELSE NoBody, r.fault = "none",
              IF r.raised # "none" THEN Crash
              ELSE IF r.view = "add" THEN AddAppointmentReturn(r.result)
              ELSE DeleteAppointmentReturn(r.result))
    /\ UNCHANGED <<deployed, users, tokens, tables, ledger>>

\* One user's requests, two of them in flight at once.
Patients == {d \in People : d.role = "patient"}

NextQuery ==
    \/ \E d \in Patients : Register(d, "s1", TRUE)
    \/ \E d \in Patients : Login([k \in LoginKeys |-> d[k]], TRUE)
    \/ \E t \in tokens, d \in {FullBody("appointments", "v1"), PartBody("appointments")} :
          AddAppointmentCall(t, d)
    \/ \E t \in tokens, id \in RowIds : DeleteAppointmentCall(t, id)
    \/ \E r \in inflight, ok \in BOOLEAN : ExecuteQueryConnect(r, ok)
    \/ \E r \in inflight, ok \in BOOLEAN : ExecuteQueryExecute(r, ok)
    \/ \E r \in inflight, outcome \in FetchOutcomes : ExecuteQueryFetchId(r, outcome)
    \/ \E r \in inflight, ok \in BOOLEAN : ExecuteQueryCommit(r, ok)
    \/ \E r \in inflight : ExecuteQueryExcept(r)
    \/ \E r \in inflight : ExecuteQueryFinally(r)
    \/ \E r \in inflight : ViewReturn(r)

SpecQuery == Init /\ [][NextQuery]_vars

\* ------------------------------------------- check-then-write views in steps
\* The views that make two store calls, an ownership SELECT and then the
\* write, each call in a transaction of its own: other requests run between
\* the two.

\* A request whose ownership check passed and whose write is still to come.
Checked(rid, op, kind, user_id, id, data) ==
    [rid |-> rid, op |-> op, kind |-> kind, actor |-> user_id, id |-> id,
     body |-> data, pc |-> "write"]

\* src/app.py update_medication up to the ownership check.
UpdateMedicationCheck(token, id, data) ==
    LET user_id == Actor(token) IN
    /\ Monolith
    /\ token \in tokens
    /\ HasFreeSlot
    /\ IF MissingFields("medications", data)
       THEN /\ UNCHANGED inflight
            /\ Served("update", "medications", user_id, id, data, TRUE,
                      MakeResponse2("Missing required fields", NoData, 400))
       ELSE IF ~Truthy(SelectOwned(medications, id, user_id, TRUE))
       THEN /\ UNCHANGED inflight
            /\ Served("update", "medications", user_id, id, data, TRUE,
                      MakeResponse2("Medication not found or access denied", NoData, 404))
       ELSE /\ inflight' = inflight \cup
                   {Checked(FreeSlot, "update", "medications", user_id, id, data)}
            /\ UNCHANGED last
    /\ UNCHANGED <<deployed, users, tokens, tables, ledger>>

\* src/app.py delete_medication up to the ownership check.
DeleteMedicationCheck(token, id) ==
    LET user_id == Actor(token) IN
    /\ Monolith
    /\ token \in tokens
    /\ HasFreeSlot
    /\ IF ~Truthy(SelectOwned(medications, id, user_id, TRUE))
       THEN /\ UNCHANGED inflight
            /\ Served("delete", "medications", user_id, id, NoBody, TRUE,
                      MakeResponse2("Medication not found or access denied", NoData, 404))
       ELSE /\ inflight' = inflight \cup
                   {Checked(FreeSlot, "delete", "medications", user_id, id, NoBody)}
            /\ UNCHANGED last
    /\ UNCHANGED <<deployed, users, tokens, tables, ledger>>

\* src/app/routes/daily_tasks.py update_daily_task and delete_daily_task up
\* to the ownership check.
DailyTaskCheck(op, token, id, data) ==
    LET user_id == Actor(token) IN
    /\ ~Monolith
    /\ token \in tokens
    /\ HasFreeSlot
    /\ IF ~Truthy(SelectOwned(daily_tasks, id, user_id, TRUE))
       THEN /\ UNCHANGED inflight
            /\ Served(op, "daily_tasks", user_id, id, data, TRUE,
                      MakeResponse2("Task not found or unauthorized", NoData, 403))
       ELSE /\ inflight' = inflight \cup
                   {Checked(FreeSlot, op, "daily_tasks", user_id, id, data)}
            /\ UNCHANGED last
    /\ UNCHANGED <<deployed, users, tokens, tables, ledger>>

\* The second store call and the return statement of each view: `success` is
\* execute_query's result, True whenever the statement ran, whatever the
\* number of rows it touched.
UpdateMedicationWrite(T, user_id, id, data, up) ==
    IF Truthy(Written(up))
    THEN Out(UpdateOwned(T, id, user_id, Cols("medications", data)), 0, TRUE,
             MakeResponse2("Medication updated successfully!", NoData, 200))
    ELSE Out(T, 0, FALSE, MakeResponse2("Failed to update medication", NoData, 500))

DeleteMedicationWrite(T, user_id, id, up) ==
    IF Truthy(Written(up))
    THEN Out(DeleteOwned(T, id, user_id), 0, TRUE,
             MakeResponse2("Medication deleted successfully!", NoData, 200))
    ELSE Out(T, 0, FALSE, MakeResponse2("Failed to delete medication", NoData, 500))

UpdateDailyTaskWrite(T, user_id, id, data, up) ==
    IF MissingFields("daily_tasks", data) THEN Out(T, 0, TRUE, Crash)
    ELSE Out(IF up THEN UpdateOwned(T, id, user_id, Cols("daily_tasks", data)) ELSE T,
             0, up, MakeResponse3("Task updated successfully!", NoData, 200, 500))

DeleteDailyTaskWrite(T, user_id, id, up) ==
    Out(IF up THEN DeleteOwned(T, id, user_id) ELSE T, 0, up,
        MakeResponse3("Task deleted successfully!", NoData, 200, 500))

\* A checked request makes its write and answers.
Write(r, up) ==
    LET T == IF r.kind = "medications" THEN medications ELSE daily_tasks
        o == CASE r.kind = "medications" /\ r.op = "update" ->
                    UpdateMedicationWrite(T, r.actor, r.id, r.body, up)
               [] r.kind = "medications" /\ r.op = "delete" ->
                    DeleteMedicationWrite(T, r.actor, r.id, up)
               [] r.kind = "daily_tasks" /\ r.op = "update" ->
                    UpdateDailyTaskWrite(T, r.actor, r.id, r.body, up)
               [] r.kind = "daily_tasks" /\ r.op = "delete" ->
                    DeleteDailyTaskWrite(T, r.actor, r.id, up)
    IN /\ r.pc = "write"
       /\ medications' = IF r.kind = "medications" THEN o.table ELSE medications
       /\ daily_tasks' = IF r.kind = "daily_tasks" THEN o.table ELSE daily_tasks
       /\ inflight' = inflight \ {r}
       /\ Served(r.op, r.kind, r.actor, r.id, r.body, o.up, o.resp)
       /\ UNCHANGED <<deployed, users, tokens, appointments, seq, ledger>>

NextRace ==
    \/ \E d \in People : Register(d, "s1", TRUE)
    \/ \E d \in People : Login([k \in LoginKeys |-> d[k]], TRUE)
    \/ \E t \in tokens : AddMedication(t, FullBody("medications", "v1"), 0)
    \/ \E t \in tokens : AddDailyTask(t, FullBody("daily_tasks", "v1"), 0)
    \/ \E t \in tokens, id \in RowIds,
          d \in {FullBody("medications", "v2"), PartBody("medications")} :
          UpdateMedicationCheck(t, id, d)
    \/ \E t \in tokens, id \in RowIds : DeleteMedicationCheck(t, id)
    \/ \E t \in tokens, id \in RowIds,
          d \in {FullBody("daily_tasks", "v2"), PartBody("daily_tasks")} :
          DailyTaskCheck("update", t, id, d)
    \/ \E t \in tokens, id \in RowIds : DailyTaskCheck("delete", t, id, NoBody)
    \/ \E r \in inflight, up \in BOOLEAN : Write(r, up)

SpecRace == Init /\ [][NextRace]_vars

\* ================================================================ claims
\* The error taxonomy, read off a response's HTTP status.
Outcome(resp) ==
    CASE resp.status \in 200..299 -> "Success"
      [] resp.status = 400 -> "ValidationError"
      [] resp.status = 401 -> "InvalidCredentials"
      [] resp.status = 403 -> "Forbidden"
      [] resp.status = 404 -> "NotFound"
      [] resp.status = 409 -> "Duplicate"
      [] OTHER -> "StorageError"

RecordsOf(kind, m, a, d) ==
    CASE kind = "medications" -> m
      [] kind = "appointments" -> a
      [] kind = "daily_tasks" -> d
      [] OTHER -> {}
Table(kind) == RecordsOf(kind, medications, appointments, daily_tasks)
TableAfter(kind) == RecordsOf(kind, medications', appointments', daily_tasks')

\* The capability that covers changing a record of a kind.
CapFor(kind) ==
    CASE kind = "medications" -> "can_edit_medications"
      [] kind = "appointments" -> "can_edit_appointments"
      [] OTHER -> "can_view_daily_tasks"
Granted(patient_id, caregiver_id, kind) ==
    \E i \in GrantRows(patient_id, caregiver_id) : grants[i].caps[CapFor(kind)]

RegisteredIds == {users[i].id : i \in 1..Len(users)}
FullFields(req) == req.kind \in Kinds /\ HasAll(req.body, Fields(req.kind))

\* C1: an update or delete by an actor who neither owns the record nor holds
\* a grant with the matching capability from its owner leaves the record
\* exactly as it was.
C1_StrangerNeverChanges ==
    [][\A r \in Table(last'.kind) :
          (/\ last'.op \in {"update", "delete"}
           /\ r.id = last'.id
           /\ r.user_id # last'.actor
           /\ ~Granted(r.user_id, last'.actor, last'.kind))
          => r \in TableAfter(last'.kind)]_vars

\* C2: an update or delete of an existing record of another owner (store up,
\* every field given) is answered NotFound and changes nothing.
C2_ForeignIsNotFound ==
    [][\A r \in Table(last'.kind) :
          (/\ last'.op \in {"update", "delete"}
           /\ last'.up
           /\ last'.op = "update" => FullFields(last')
           /\ r.id = last'.id
           /\ r.user_id # last'.actor)
          => /\ Outcome(last'.resp) = "NotFound"
             /\ TableAfter(last'.kind) = Table(last'.kind)]_vars

\* C3: an update (every field given) or delete by the owner of the record,
\* with the store executing the statements, is not refused and takes effect:
\* the record carries the submitted fields, or is gone.
C3_OwnerTakesEffect ==
    [][\A r \in Table(last'.kind) :
          (/\ last'.op \in {"update", "delete"}
           /\ last'.up
           /\ last'.op = "update" => FullFields(last')
           /\ r.id = last'.id
           /\ r.user_id = last'.actor)
          => /\ Outcome(last'.resp) \notin {"Forbidden", "NotFound", "InvalidCredentials"}
             /\ IF last'.op = "update"
                THEN [r EXCEPT !.cols = Cols(last'.kind, last'.body)]
                        \in TableAfter(last'.kind)
                ELSE \A q \in TableAfter(last'.kind) : q.id # r.id]_vars

\* C3's case: a caregiver-role owner has just updated their own record to
\* new field values.
C3_Witness ==
    /\ last.op = "update"
    /\ last.up
    /\ FullFields(last)
    /\ RoleOf(last.actor) = "caregiver"
    /\ last.body = FullBody(last.kind, "v2")
    /\ \E r \in Table(last.kind) :
          r.id = last.id /\ r.user_id = last.actor /\ r.cols = FullBody(last.kind, "v2")

\* C9: a caregiver without a grant from a patient who adds a medication
\* naming that patient is answered Forbidden or NotFound and no medication
\* row is inserted.
C9_NoAddForPatient ==
    [][(/\ last'.op = "add"
        /\ last'.kind = "medications"
        /\ "patient_id" \in DOMAIN last'.body
        /\ last'.body["patient_id"] # last'.actor
        /\ RoleOf(last'.actor) = "caregiver"
        /\ RoleOf(last'.body["patient_id"]) = "patient"
        /\ GrantRows(last'.body["patient_id"], last'.actor) = {})
       => /\ Outcome(last'.resp) \in {"Forbidden", "NotFound"}
          /\ medications' = medications]_vars

\* The fields of a register or login request, and that every key a view
\* indexes is there.
ReqUsername(req) == Get(req.body, "username")
ReqPassword(req) == Get(req.body, "password")
ReqRole(req) == Get(req.body, "role")
ValidRegistration(req) ==
    /\ req.op = "register"
    /\ HasAll(req.body, RegisterKeys)
    /\ ~InvalidRegistration(ReqUsername(req), ReqPassword(req), ReqRole(req))

\* C4: registering a taken username (store up) fails, with a response that is
\* neither the validation error nor the one register gives when the store
\* fails, and the users table is unchanged.
C4_DuplicateIsDistinct ==
    [][(/\ ValidRegistration(last')
        /\ last'.up
        /\ UsernameTaken(ReqUsername(last')))
       => /\ Outcome(last'.resp) # "Success"
          /\ Outcome(last'.resp) # "ValidationError"
          /\ last'.resp # RegisterReturn(None, ReqRole(last'))
          /\ users' = users]_vars

\* C5: registering a fresh username with a password and an allowed role
\* (store up) adds exactly one user and answers with a success carrying the
\* new user's id.
C5_RegisterSucceeds ==
    [][(/\ ValidRegistration(last')
        /\ last'.up
        /\ ~UsernameTaken(ReqUsername(last')))
       => /\ Len(users') = Len(users) + 1
          /\ SubSeq(users', 1, Len(users)) = users
          /\ Outcome(last'.resp) = "Success"
          /\ "userId" \in DOMAIN last'.resp.data
          /\ last'.resp.data.userId = users'[Len(users')].id]_vars

\* C6: a registration whose username or password is absent or empty, or whose
\* role is not patient or caregiver, fails with ValidationError and adds no
\* user.
C6_InvalidIsValidationError ==
    [][(/\ last'.op = "register"
        /\ InvalidRegistration(ReqUsername(last'), ReqPassword(last'), ReqRole(last')))
       => /\ Outcome(last'.resp) = "ValidationError"
          /\ users' = users]_vars

\* Whether the request's password verifies against the stored hash of the
\* request's username.
Verifies(req) ==
    LET user == UserByName(ReqUsername(req))
    IN ~user.none /\ CheckPasswordHash(user.value.password, ReqPassword(req))

\* A successful login answers with the user's id and a token that resolves
\* to it, and every token in circulation resolves to a registered user; the
\* id register answers with is the id stored for that username.
RoundTrip ==
    /\ (last.op = "login" /\ Outcome(last.resp) = "Success")
         => /\ Verifies(last)
            /\ last.resp.data.userId = UserByName(ReqUsername(last)).value.id
            /\ last.resp.data.token \in tokens
            /\ Actor(last.resp.data.token) = last.resp.data.userId
    /\ (last.op = "register" /\ "userId" \in DOMAIN last.resp.data)
         => UserByName(ReqUsername(last)).value.id = last.resp.data.userId
    /\ \A t \in tokens : Actor(t) \in RegisteredIds
    /\ last.op = "get" => \E t \in tokens : Actor(t) = last.actor

C10_OneGrantPerPair ==
    \A i, j \in 1..Len(grants) :
        (grants[i].patient_id = grants[j].patient_id
            /\ grants[i].caregiver_id = grants[j].caregiver_id) => i = j

\* C10's case: an invite was accepted for a pair that already had a grant
\* from assignDirect (its capabilities are not the default ones), and the
\* pair still has that one grant.
C10_Witness ==
    /\ last.op = "accept"
    /\ Outcome(last.resp) = "Success"
    /\ Accepted(last.id, last.actor) \in invites
    /\ \E i \in GrantRows(last.id, last.actor) : grants[i].caps # DefaultCaps

\* C8: a list request (store up) returns exactly the records whose user_id is
\* the actor.
C8_ListIsOwnRecords ==
    (last.op = "get" /\ last.up)
    => /\ Outcome(last.resp) = "Success"
       /\ "rows" \in DOMAIN last.resp.data
       /\ {r.id : r \in last.resp.data.rows}
             = {r.id : r \in SelectByUser(Table(last.kind), last.actor)}

\* The (patient_id, caregiver_id) pairs that have a grant.
GrantPairs(G) == {<<G[i].patient_id, G[i].caregiver_id>> : i \in 1..Len(G)}

\* C11: after every step, also of an accept that fails part-way or runs
\* beside other requests, an invite is accepted only if the grant of its
\* pair exists; and a step of an accept (the request moves on or ends) that
\* creates the grant of its pair leaves the pair's invite accepted, not
\* pending.
C11_AcceptIsAtomic ==
    [][/\ \A i \in invites' :
             i.status = "accepted"
                => <<i.patient_id, i.caregiver_id>> \in GrantPairs(grants')
       /\ \A r \in inflight :
             (r.op = "accept"
                /\ r \notin inflight'
                /\ <<r.id, r.actor>> \in GrantPairs(grants') \ GrantPairs(grants))
             => /\ Accepted(r.id, r.actor) \in invites'
                /\ Pending(r.id, r.actor) \notin invites']_vars

\* C11's case: an accept of a pair failed and was rolled back while another
\* accept of the same pair has run both statements and not yet committed:
\* the invite is still pending and the pair has no grant.
C11_Witness ==
    /\ last.op = "accept"
    /\ Outcome(last.resp) = "StorageError"
    /\ \E r \in inflight :
          /\ r.op = "accept"
          /\ r.id = last.id
          /\ r.actor = last.actor
          /\ r.writes = {"mark", "grant"}
    /\ Pending(last.id, last.actor) \in invites
    /\ <<last.id, last.actor>> \notin GrantPairs(grants)

\* The slot's call after a step, if it is still in flight.
After(r) == {q \in inflight' : q.rid = r.rid}

\* C12: a write through execute_query that met a failure is over with the
\* failure value None returned to the caller (no exception, no success
\* value), its write not committed; and no step of such a call changes the
\* rows of the table.
C12_FailedWriteRolledBack ==
    [][\A r \in inflight : \A q \in After(r) :
          (r.op = "query" /\ r \notin inflight' /\ q.fault # "none")
          => /\ appointments' = appointments
             /\ ~q.committed
             /\ q.pc = "done" => (/\ q.raised = "none"
                                  /\ q.result = None
                                  /\ ~q.open)]_vars

\* C13: a checked update or delete of a medication or daily task whose write
\* step answers success found the record with owner = actor in the table at
\* that step, and the step gave it the submitted fields or removed it;
\* whatever other requests ran since its ownership check.
C13_SuccessOnlyIfWritten ==
    [][\A r \in inflight :
          (/\ r.pc = "write"
           /\ r.kind \in {"medications", "daily_tasks"}
           /\ r \notin inflight'
           /\ Outcome(last'.resp) = "Success")
          => \E row \in Table(r.kind) :
                /\ row.id = r.id
                /\ row.user_id = r.actor
                /\ IF r.op = "update"
                   THEN [row EXCEPT !.cols = Cols(r.kind, r.body)] \in TableAfter(r.kind)
                   ELSE \A q \in TableAfter(r.kind) : q.id # r.id]_vars
====
